---- MODULE Spec2Model ----
(***************************************************************************)
(* Model of the anki MCP server (src/index.ts): the text normalizer        *)
(* cleanWithRegex, the query formatter formatQuery, the card retriever     *)
(* findCardsAndOrder and the ReadResource / CallTool request handlers.     *)
(*                                                                         *)
(* Strings are sequences of one-character strings, so that startsWith,     *)
(* slice, split, trim and the regular-expression replacements are computed *)
(* character by character as the JavaScript code computes them.            *)
(***************************************************************************)
EXTENDS Integers, Sequences, FiniteSets, TLC

(***************************************************************************)
(* Bounds of the model.                                                    *)
(***************************************************************************)
MaxTokens == 3
MaxKeyTokens == 3
MaxCards == 3
MaxAnswers == 3

(***************************************************************************)
(* String helpers (JavaScript String.prototype semantics).                 *)
(***************************************************************************)
Min(S) == CHOOSE x \in S : \A y \in S : x <= y

Max2(a, b) == IF a >= b THEN a ELSE b

Min2(a, b) == IF a <= b THEN a ELSE b

\* the i flag of a regular expression: compare letters without case
Lower(c) ==
  CASE c = "S" -> "s" [] c = "T" -> "t" [] c = "Y" -> "y"
    [] c = "L" -> "l" [] c = "E" -> "e" [] OTHER -> c

\* p occurs in s starting at index i (1-based)
StartsWithAt(s, i, p) ==
  /\ i >= 1
  /\ i + Len(p) - 1 <= Len(s)
  /\ \A k \in 1..Len(p) : s[i + k - 1] = p[k]

\* the same, ignoring case
StartsWithAtCI(s, i, p) ==
  /\ i >= 1
  /\ i + Len(p) - 1 <= Len(s)
  /\ \A k \in 1..Len(p) : Lower(s[i + k - 1]) = Lower(p[k])

\* String.prototype.startsWith
startsWith(s, p) == StartsWithAt(s, 1, p)

\* String.prototype.slice(n) for 0 <= n
sliceFrom(s, n) == IF n >= Len(s) THEN <<>> ELSE SubSeq(s, n + 1, Len(s))

\* index of the first c at or after i, 0 when there is none
FirstIndexFrom(s, i, c) ==
  LET S == {j \in i..Len(s) : s[j] = c}
  IN  IF S = {} THEN 0 ELSE Min(S)

\* index of the first occurrence of p at or after i (ignoring case), or 0
FirstSeqFromCI(s, i, p) ==
  LET S == {j \in i..Len(s) : StartsWithAtCI(s, j, p)}
  IN  IF S = {} THEN 0 ELSE Min(S)

\* s contains p as a substring
Contains(s, p) == \E j \in 1..Len(s) : StartsWithAt(s, j, p)

(***************************************************************************)
(* Literals of src/index.ts.                                               *)
(***************************************************************************)
LitStyleOpen == <<"<", "s", "t", "y", "l", "e">>

LitStyleClose == <<"<", "/", "s", "t", "y", "l", "e", ">">>

LitDivOpen == <<"<", "d", "i", "v">>

LitPlay == <<"[", "a", "n", "k", "i", ":", "p", "l", "a", "y", ":">>

LitNbsp == <<"&", "n", "b", "s", "p", ";">>

LitAmp == <<"&", "a", "m", "p", ";">>

LitLt == <<"&", "l", "t", ";">>

LitGt == <<"&", "g", "t", ";">>

LitQuot == <<"&", "q", "u", "o", "t", ";">>

LitDeck == <<"d", "e", "c", "k">>

LitIs == <<"i", "s">>

LitDeckColon == <<"d", "e", "c", "k", ":">>

LitIsColon == <<"i", "s", ":">>

(***************************************************************************)
(* cleanWithRegex: one regular expression of the chain at a time.          *)
(* MatchEnd(kind, s, i) is the index of the last character of the match    *)
(* of the pattern `kind` that starts at i, or 0 when it does not match     *)
(* there.                                                                  *)
(***************************************************************************)
\* /<style[^>]*>[\s\S]*?<\/style>/gi
MatchStyle(s, i) ==
  IF ~StartsWithAtCI(s, i, LitStyleOpen) THEN 0
  ELSE LET g == FirstIndexFrom(s, i + Len(LitStyleOpen), ">")
       IN  IF g = 0 THEN 0
           ELSE LET c == FirstSeqFromCI(s, g + 1, LitStyleClose)
                IN  IF c = 0 THEN 0 ELSE c + Len(LitStyleClose) - 1

\* /<div[^>]*>/g
MatchDiv(s, i) ==
  IF ~StartsWithAt(s, i, LitDivOpen) THEN 0
  ELSE FirstIndexFrom(s, i + Len(LitDivOpen), ">")

\* /<[^>]+>/g
MatchTag(s, i) ==
  IF s[i] # "<" THEN 0
  ELSE LET g == FirstIndexFrom(s, i + 1, ">")
       IN  IF g >= i + 2 THEN g ELSE 0

\* /\[anki:play:[^\]]+\]/g
MatchPlay(s, i) ==
  IF ~StartsWithAt(s, i, LitPlay) THEN 0
  ELSE LET g == FirstIndexFrom(s, i + Len(LitPlay), "]")
       IN  IF g >= i + Len(LitPlay) + 1 THEN g ELSE 0

\* a literal pattern such as /&amp;/g
MatchLit(s, i, p) == IF StartsWithAt(s, i, p) THEN i + Len(p) - 1 ELSE 0

MatchEnd(kind, s, i) ==
  CASE kind = "style" -> MatchStyle(s, i)
    [] kind = "div" -> MatchDiv(s, i)
    [] kind = "tag" -> MatchTag(s, i)
    [] kind = "play" -> MatchPlay(s, i)
    [] kind = "nbsp" -> MatchLit(s, i, LitNbsp)
    [] kind = "amp" -> MatchLit(s, i, LitAmp)
    [] kind = "lt" -> MatchLit(s, i, LitLt)
    [] kind = "gt" -> MatchLit(s, i, LitGt)
    [] kind = "quot" -> MatchLit(s, i, LitQuot)

\* variant: the pattern has lost its g flag, only the first match is replaced
RECURSIVE ReplaceFirstFrom(_, _, _, _)
ReplaceFirstFrom(kind, s, i, repl) ==
  IF i > Len(s) THEN <<>>
  ELSE LET e == MatchEnd(kind, s, i)
       IN  IF e > 0 THEN repl \o SubSeq(s, e + 1, Len(s))
           ELSE <<s[i]>> \o ReplaceFirstFrom(kind, s, i + 1, repl)

\* String.prototype.replace with a g-flagged pattern: leftmost matches,
\* scanning resumes after each match, the replacement is not rescanned
RECURSIVE ReplaceFrom(_, _, _, _)
ReplaceFrom(kind, s, i, repl) ==
  IF i > Len(s) THEN <<>>
  ELSE LET e == MatchEnd(kind, s, i)
       IN  IF e > 0 THEN repl \o ReplaceFrom(kind, s, e + 1, repl)
           ELSE <<s[i]>> \o ReplaceFrom(kind, s, i + 1, repl)

replaceAll(s, kind, repl) == ReplaceFrom(kind, s, 1, repl)

\* String.prototype.split("\n"): the list of lines, at least one
RECURSIVE splitLines(_)
splitLines(s) ==
  LET n == FirstIndexFrom(s, 1, "\n")
  IN  IF n = 0 THEN <<s>>
      ELSE <<SubSeq(s, 1, n - 1)>> \o splitLines(SubSeq(s, n + 1, Len(s)))

Whitespace == {" ", "\t", "\n"}

\* String.prototype.trim
trim(s) ==
  LET K == {j \in 1..Len(s) : s[j] \notin Whitespace}
  IN  IF K = {} THEN <<>>
      ELSE SubSeq(s, Min(K), CHOOSE j \in K : \A k \in K : k <= j)

\* .map(trim).filter(length > 0).join("\n")
RECURSIVE trimFilterJoin(_)
trimFilterJoin(lines) ==
  IF lines = <<>> THEN <<>>
  ELSE LET h == trim(Head(lines))
           r == trimFilterJoin(Tail(lines))
       IN  IF Len(h) = 0 THEN r
           ELSE IF r = <<>> THEN h
           ELSE h \o <<"\n">> \o r

\* variant: the &quot; step is missing
decodeEntitiesNoQuot(s) ==
  LET s1 == replaceAll(s, "nbsp", <<" ">>)
      s2 == replaceAll(s1, "amp", <<"&">>)
      s3 == replaceAll(s2, "lt", <<"<">>)
  IN  replaceAll(s3, "gt", <<">">>)

\* the entity decoding steps of cleanWithRegex, in the order of the source
decodeEntities(s) ==
  LET s1 == replaceAll(s, "nbsp", <<" ">>)
      s2 == replaceAll(s1, "amp", <<"&">>)
      s3 == replaceAll(s2, "lt", <<"<">>)
      s4 == replaceAll(s3, "gt", <<">">>)
  IN  replaceAll(s4, "quot", <<"\"">>)

\* the markup removal steps of cleanWithRegex, in the order of the source
stripMarkup(s) ==
  LET s1 == replaceAll(s, "style", <<>>)
      s2 == replaceAll(s1, "div", <<"\n">>)
      s3 == replaceAll(s2, "tag", <<" ">>)
  IN  replaceAll(s3, "play", <<>>)

cleanWithRegex(htmlString) ==
  trimFilterJoin(splitLines(decodeEntities(stripMarkup(htmlString))))

(***************************************************************************)
(* formatQuery                                                             *)
(***************************************************************************)
\* variant: the deck rule drops one character too many
formatQuerySlice5(query) ==
  IF startsWith(query, LitDeck) THEN LitDeckColon \o sliceFrom(query, 5)
  ELSE IF startsWith(query, LitIs) THEN LitIsColon \o sliceFrom(query, 2)
  ELSE query

formatQuery(query) ==
  IF startsWith(query, LitDeck) THEN LitDeckColon \o sliceFrom(query, 4)
  ELSE IF startsWith(query, LitIs) THEN LitIsColon \o sliceFrom(query, 2)
  ELSE query

(***************************************************************************)
(* Inputs of the two pure functions: strings built from a few pieces.      *)
(***************************************************************************)
\* the pieces of a marked-up card field
TokenText(t) ==
  CASE t = "tag" -> <<"<", "b", ">">>
    [] t = "div" -> <<"<", "d", "i", "v", ">">>
    [] t = "style" -> <<"<", "S", "t", "y", "l", "e", ">", "b">> \o LitStyleClose
    [] t = "play" -> LitPlay \o <<"b", "]">>
    [] t = "nbsp" -> LitNbsp
    [] t = "amp" -> LitAmp
    [] t = "lt" -> LitLt
    [] t = "gt" -> LitGt
    [] t = "quot" -> LitQuot
    [] t = "text" -> <<"b">>
    [] t = "amptext" -> <<"a", "m", "p", ";">>
    [] t = "space" -> <<" ">>
    [] t = "newline" -> <<"\n">>

TagTokens == {"tag", "div", "style"}

EntityTokens == {"nbsp", "amp", "lt", "gt", "quot"}

PlainTokens == {"text", "amptext", "space", "newline"}

Tokens == TagTokens \cup {"play"} \cup EntityTokens \cup PlainTokens

RECURSIVE Flatten(_)
Flatten(ts) ==
  IF ts = <<>> THEN <<>> ELSE TokenText(Head(ts)) \o Flatten(Tail(ts))

\* the pieces of a keyword
KeyText(t) ==
  CASE t = "deck" -> LitDeck
    [] t = "is" -> LitIs
    [] t = "dec" -> <<"d", "e", "c">>
    [] t = "i" -> <<"i">>
    [] t = "Math" -> <<"M", "a", "t", "h">>
    [] t = "due" -> <<"d", "u", "e">>
    [] t = "colon" -> <<":">>
    [] t = "tagx" -> <<"t", "a", "g", ":", "x">>

KeyTokens == {"deck", "is", "dec", "i", "Math", "due", "colon", "tagx"}

RECURSIVE FlattenKey(_)
FlattenKey(ts) ==
  IF ts = <<>> THEN <<>> ELSE KeyText(Head(ts)) \o FlattenKey(Tail(ts))

(***************************************************************************)
(* Helpers of the request handlers.                                        *)
(***************************************************************************)
Digits == <<"0", "1", "2", "3", "4", "5", "6", "7", "8", "9">>

\* String(n) / template interpolation of a non-negative integer
RECURSIVE Str(_)
Str(n) ==
  IF n < 10 THEN <<Digits[n + 1]>>
  ELSE Str(n \div 10) \o <<Digits[(n % 10) + 1]>>

\* Array.prototype.join over the strings of a list
RECURSIVE join(_, _)
join(strs, sep) ==
  IF strs = <<>> THEN <<>>
  ELSE IF Len(strs) = 1 THEN Head(strs)
  ELSE Head(strs) \o sep \o join(Tail(strs), sep)

LitCommaSpace == <<",", " ">>

LitUndefined == <<"u", "n", "d", "e", "f", "i", "n", "e", "d">>

LitNid == <<"n", "i", "d", ":">>

LitIsDue == <<"i", "s", ":", "d", "u", "e">>

LitIsNew == <<"i", "s", ":", "n", "e", "w">>

\* String.prototype.split("/"): the list of segments, at least one
RECURSIVE splitSlash(_)
splitSlash(s) ==
  LET n == FirstIndexFrom(s, 1, "/")
  IN  IF n = 0 THEN <<s>>
      ELSE <<SubSeq(s, 1, n - 1)>> \o splitSlash(SubSeq(s, n + 1, Len(s)))

\* variant: split("/")[1] instead of split("/").pop()
secondElement(list) == IF Len(list) >= 2 THEN list[2] ELSE <<>>

\* Array.prototype.pop: the last element
pop(list) == list[Len(list)]

\* url.pathname of an anki://host... URI: from the first "/" after the
\* authority up to a "?" or "#"
pathname(uri) ==
  LET rest == sliceFrom(uri, 7)
      sl == FirstIndexFrom(rest, 1, "/")
      stops == {j \in 1..Len(rest) : rest[j] \in {"?", "#"}}
      end == IF stops = {} THEN Len(rest) ELSE Min(stops) - 1
  IN  IF sl = 0 \/ sl > end THEN <<>> ELSE SubSeq(rest, sl, end)

\* url.pathname.split("/").pop()
uriQuery(uri) == pop(splitSlash(pathname(uri)))

\* Array.prototype.slice(0, num)
slice0(list, num) ==
  LET end == IF num < 0 THEN Max2(Len(list) + num, 0) ELSE Min2(num, Len(list))
  IN  SubSeq(list, 1, end)

\* variant: a card goes before the cards of equal due
RECURSIVE insertBeforeEqualDue(_, _)
insertBeforeEqualDue(sorted, c) ==
  IF sorted = <<>> THEN <<c>>
  ELSE IF Head(sorted).due - c.due < 0
       THEN <<Head(sorted)>> \o insertBeforeEqualDue(Tail(sorted), c)
       ELSE <<c>> \o sorted

\* insertion of a card after the cards whose due is not larger (stable)
RECURSIVE insertByDue(_, _)
insertByDue(sorted, c) ==
  IF sorted = <<>> THEN <<c>>
  ELSE IF Head(sorted).due - c.due <= 0
       THEN <<Head(sorted)>> \o insertByDue(Tail(sorted), c)
       ELSE <<c>> \o sorted

\* Array.prototype.sort((a, b) => a.due - b.due), a stable sort
RECURSIVE sortByDue(_)
sortByDue(cards) ==
  IF cards = <<>> THEN <<>>
  ELSE insertByDue(sortByDue(SubSeq(cards, 1, Len(cards) - 1)),
                   cards[Len(cards)])

\* the projection of one cardsInfo record to a Card
toCard(card) ==
  [cardId |-> card.cardId,
   question |-> cleanWithRegex(card.question),
   answer |-> cleanWithRegex(card.answer),
   due |-> card.due]

\* the body of findCardsAndOrder after cardsInfo has returned
projectAndSort(records) ==
  sortByDue([i \in 1..Len(records) |-> toCard(records[i])])

\* answers.filter((_, index) => result[index]).map(card => card.cardId);
\* an index past the end of result reads undefined, which is falsy
RECURSIVE filterIds(_, _, _, _)
filterIds(answers, result, i, want) ==
  IF i > Len(answers) THEN <<>>
  ELSE LET r == IF i <= Len(result) THEN result[i] ELSE FALSE
       IN  (IF r = want THEN <<answers[i].cardId>> ELSE <<>>)
             \o filterIds(answers, result, i + 1, want)

successfulCards(answers, result) == filterIds(answers, result, 1, TRUE)

\* variant: the negation of the filter is missing
failedCardIdsNotNegated(answers, result) == filterIds(answers, result, 1, TRUE)

failedCardIds(answers, result) == filterIds(answers, result, 1, FALSE)

idsText(ids) == join([i \in 1..Len(ids) |-> Str(ids[i])], LitCommaSpace)

(***************************************************************************)
(* State.                                                                  *)
(*   pc          where the request handler is: "idle", waiting for a store *)
(*               call ("findCards", "cardsInfo", "answerCards", "addNote", *)
(*               "nidFind") or "done"                                      *)
(*   req         the request being handled                                 *)
(*   calls       the store calls issued for this request, in order         *)
(*   retrieveArg the argument findCardsAndOrder was called with            *)
(*   infoResult  what cardsInfo returned                                   *)
(*   resp        the response or the error the request ended in            *)
(*   errlog      what the handler wrote with console.error                 *)
(*   tokens, cphase, out1, out2   input and outputs of cleanWithRegex      *)
(*   ktokens, kphase, kout        input and output of formatQuery          *)
(***************************************************************************)
VARIABLES pc, req, calls, retrieveArg, infoResult, resp, errlog,
          tokens, cphase, out1, out2, ktokens, kphase, kout

serverVars == <<pc, req, calls, retrieveArg, infoResult, resp, errlog>>

cleanVars == <<tokens, cphase, out1, out2>>

formatVars == <<ktokens, kphase, kout>>

vars == <<pc, req, calls, retrieveArg, infoResult, resp, errlog,
          tokens, cphase, out1, out2, ktokens, kphase, kout>>

(***************************************************************************)
(* Requests.                                                               *)
(***************************************************************************)
LitAnkiSearch ==
  <<"a", "n", "k", "i", ":", "/", "/", "s", "e", "a", "r", "c", "h">>

\* the three catalogued URIs and some others
Uris ==
  { LitAnkiSearch \o <<"/">> \o LitDeck \o <<"c", "u", "r", "r", "e", "n", "t">>,
    LitAnkiSearch \o <<"/">> \o LitIs \o <<"d", "u", "e">>,
    LitAnkiSearch \o <<"/">> \o LitIs \o <<"n", "e", "w">>,
    LitAnkiSearch \o <<"/", "t", "a", "g", ":", "x">>,
    LitAnkiSearch \o <<"/", "a", "/">> \o LitIs \o <<"d", "u", "e">>,
    LitAnkiSearch \o <<"/">> \o LitIs \o <<"d", "u", "e", "?", "x", "/", "y">>,
    LitAnkiSearch \o <<"/", "a", "/">>,
    LitAnkiSearch \o <<"/">>,
    LitAnkiSearch }

ToolNames ==
  {"update_cards", "add_card", "get_due_cards", "get_new_cards", "bogus"}

Answers ==
  {[cardId |-> 1, ease |-> 2], [cardId |-> 2, ease |-> 4], [cardId |-> 1, ease |-> 4]}

AnswerLists == UNION {[1..n -> Answers] : n \in 0..MaxAnswers}

BoolLists == UNION {[1..n -> BOOLEAN] : n \in 0..MaxAnswers}

Nums == (-2)..(MaxCards + 1)

NoReq ==
  [kind |-> "none", uri |-> <<>>, name |-> "", hasArgs |-> FALSE,
   answers |-> <<>>, num |-> 0, front |-> "", back |-> ""]

ReadReq(u) == [NoReq EXCEPT !.kind = "ReadResource", !.uri = u]

ToolReq(n) == [NoReq EXCEPT !.kind = "CallTool", !.name = n]

\* the argument objects a tool is called with
ArgsOf(n) ==
  CASE n = "update_cards" ->
         {[ToolReq(n) EXCEPT !.hasArgs = TRUE, !.answers = a] : a \in AnswerLists}
    [] n = "add_card" ->
         {[ToolReq(n) EXCEPT !.hasArgs = TRUE, !.front = f, !.back = "<b>back</b>"] :
            f \in {"front", "<i>front</i>"}}
    [] OTHER ->
         {[ToolReq(n) EXCEPT !.hasArgs = TRUE, !.num = k] : k \in Nums}

(***************************************************************************)
(* The store client (yanki-connect): calls and what they return.           *)
(***************************************************************************)
NoNote == [deckName |-> "", modelName |-> "", Front |-> "", Back |-> ""]

NoCall ==
  [op |-> "", query |-> <<>>, cards |-> <<>>, answers |-> <<>>,
   note |-> NoNote, st |-> "pending", err |-> "", ret |-> <<>>]

FindCall(q) == [NoCall EXCEPT !.op = "findCards", !.query = q]

InfoCall(cardIds) == [NoCall EXCEPT !.op = "cardsInfo", !.cards = cardIds]

AnswerCall(a) == [NoCall EXCEPT !.op = "answerCards", !.answers = a]

NoteCall(n) == [NoCall EXCEPT !.op = "addNote", !.note = n]

\* the last call of the log gets its outcome: what it returned or threw
Settle(log, st, err, ret) ==
  [log EXCEPT ![Len(log)] = [@ EXCEPT !.st = st, !.err = err, !.ret = ret]]

StoreErrors == {"ECONNREFUSED", "store rejected the request"}

NoteIds == 1..2

\* lists of distinct card identifiers
IdLists ==
  {l \in UNION {[1..n -> 1..MaxCards] : n \in 0..MaxCards} :
     \A i, j \in 1..Len(l) : i # j => l[i] # l[j]}

\* marked-up card fields as the store keeps them
CardTexts ==
  << Flatten(<<"div", "text", "nbsp">>),
     Flatten(<<"lt", "text", "gt">>),
     Flatten(<<"style", "tag", "amp", "amptext">>) >>

Dues == 1..2

\* cardsInfo is order-correlated with the identifiers it is given
StoredText(k) == CardTexts[(k % Len(CardTexts)) + 1]

InfoResults(cardIds) ==
  {[i \in 1..Len(cardIds) |->
      [cardId |-> cardIds[i], question |-> StoredText(cardIds[i]),
       answer |-> StoredText(cardIds[i] + 1), due |-> d[i]]] :
     d \in [1..Len(cardIds) -> Dues]}

(***************************************************************************)
(* Responses and thrown errors.                                            *)
(***************************************************************************)
NoError == [source |-> "", message |-> "", tool |-> "", detail |-> <<>>]

HandlerError(m, t, d) ==
  [source |-> "handler", message |-> m, tool |-> t, detail |-> d]

StoreError(e) == [NoError EXCEPT !.source = "store", !.message = e]

NoResp ==
  [kind |-> "none", uri |-> <<>>, mimeType |-> "", type |-> "",
   prefix |-> "", body |-> <<>>, cards |-> <<>>, error |-> NoError]

\* { contents: [{ uri, mimeType: "application/json", text: JSON.stringify(cards) }] }
ContentsResp(u, cards) ==
  [NoResp EXCEPT !.kind = "contents", !.uri = u,
                 !.mimeType = "application/json", !.cards = cards]

\* { content: [{ type: "text", text: JSON.stringify(cards) }] }
JsonResp(cards) ==
  [NoResp EXCEPT !.kind = "content", !.type = "text", !.cards = cards]

\* { content: [{ type: "text", text: `<prefix>${body}` }] }
TextResp(prefix, body) ==
  [NoResp EXCEPT !.kind = "content", !.type = "text",
                 !.prefix = prefix, !.body = body]

ErrorResp(e) == [NoResp EXCEPT !.kind = "error", !.error = e]

(***************************************************************************)
(* Initial state: the server is connected and no request has arrived.      *)
(***************************************************************************)
Init ==
  /\ pc = "idle"
  /\ req = NoReq
  /\ calls = <<>>
  /\ retrieveArg = <<>>
  /\ infoResult = <<>>
  /\ resp = NoResp
  /\ errlog = <<>>
  /\ tokens = <<>>
  /\ cphase = "input"
  /\ out1 = <<>>
  /\ out2 = <<>>
  /\ ktokens = <<>>
  /\ kphase = "input"
  /\ kout = <<>>

(***************************************************************************)
(* The request handlers, one action per stretch between two awaits.        *)
(***************************************************************************)
\* the transport delivers one request at a time
CanReceive == pc = "idle"

\* findCardsAndOrder(query) up to its first await
CallFindCardsAndOrder(query) ==
  /\ retrieveArg' = query
  /\ calls' = <<FindCall(formatQuery(query))>>
  /\ pc' = "findCards"
  /\ resp' = NoResp

\* the handler throws before any await
ThrowAtOnce(e) ==
  /\ retrieveArg' = <<>>
  /\ calls' = <<>>
  /\ pc' = "done"
  /\ resp' = ErrorResp(e)

\* ReadResource: the URI check and the call of findCardsAndOrder
ReadResource(u) ==
  /\ CanReceive
  /\ req' = ReadReq(u)
  /\ infoResult' = <<>>
  /\ errlog' = <<>>
  /\ LET query == uriQuery(u)
     IN  IF query = <<>>
         THEN ThrowAtOnce(HandlerError("Invalid resource URI", "", <<>>))
         ELSE CallFindCardsAndOrder(query)
  /\ UNCHANGED <<cleanVars, formatVars>>

\* variant: the argument check is missing
noArgsUnchecked(r) == FALSE

\* if (!args)
noArgs(r) == ~r.hasArgs

\* CallTool: the argument check and the switch, up to the first await
CallTool(r) ==
  /\ CanReceive
  /\ req' = r
  /\ infoResult' = <<>>
  /\ errlog' = <<>>
  /\ IF noArgs(r)
     THEN ThrowAtOnce(HandlerError("No arguments provided for tool: ", r.name, <<>>))
     ELSE CASE r.name = "update_cards" ->
                 /\ retrieveArg' = <<>>
                 /\ calls' = <<AnswerCall(r.answers)>>
                 /\ pc' = "answerCards"
                 /\ resp' = NoResp
            [] r.name = "add_card" ->
                 /\ retrieveArg' = <<>>
                 /\ calls' = <<NoteCall([deckName |-> "Default", modelName |-> "Basic",
                                         Front |-> r.front, Back |-> r.back])>>
                 /\ pc' = "addNote"
                 /\ resp' = NoResp
            [] r.name = "get_due_cards" -> CallFindCardsAndOrder(LitIsDue)
            [] r.name = "get_new_cards" -> CallFindCardsAndOrder(LitIsNew)
            [] OTHER -> ThrowAtOnce(HandlerError("Unknown tool", "", <<>>))
  /\ UNCHANGED <<cleanVars, formatVars>>

\* findCardsAndOrder: findCards has returned, cardsInfo is called
FindCardsReturns(cardIds) ==
  /\ pc = "findCards"
  /\ calls' = Append(Settle(calls, "ok", "", cardIds), InfoCall(cardIds))
  /\ pc' = "cardsInfo"
  /\ UNCHANGED <<req, retrieveArg, infoResult, resp, errlog, cleanVars, formatVars>>

\* findCardsAndOrder: cardsInfo has returned; the caller builds its response
CardsInfoReturns(records) ==
  /\ pc = "cardsInfo"
  /\ calls' = Settle(calls, "ok", "", records)
  /\ infoResult' = records
  /\ LET cards == projectAndSort(records)
     IN  resp' = IF req.kind = "ReadResource"
                 THEN ContentsResp(req.uri, cards)
                 ELSE JsonResp(slice0(cards, req.num))
  /\ pc' = "done"
  /\ UNCHANGED <<req, retrieveArg, errlog, cleanVars, formatVars>>

\* update_cards: answerCards has returned
AnswerCardsReturns(result) ==
  /\ pc = "answerCards"
  /\ calls' = Settle(calls, "ok", "", result)
  /\ LET failed == failedCardIds(req.answers, result)
     IN  resp' = IF Len(failed) > 0
                 THEN ErrorResp(HandlerError("Failed to update cards with IDs: ",
                                             "", idsText(failed)))
                 ELSE TextResp("Updated cards ",
                               idsText(successfulCards(req.answers, result)))
  /\ pc' = "done"
  /\ UNCHANGED <<req, retrieveArg, infoResult, errlog, cleanVars, formatVars>>

\* add_card: addNote has returned, findCards is called with nid:<noteId>
AddNoteReturns(noteId) ==
  /\ pc = "addNote"
  /\ calls' = Append(Settle(calls, "ok", "", <<noteId>>),
                     FindCall(LitNid \o Str(noteId)))
  /\ pc' = "nidFind"
  /\ UNCHANGED <<req, retrieveArg, infoResult, resp, errlog, cleanVars, formatVars>>

\* add_card: findCards has returned; element 0 of an empty list is undefined
NidFindReturns(cardIds) ==
  /\ pc = "nidFind"
  /\ calls' = Settle(calls, "ok", "", cardIds)
  /\ resp' = TextResp("Created card with id ",
                      IF cardIds = <<>> THEN LitUndefined ELSE Str(cardIds[1]))
  /\ pc' = "done"
  /\ UNCHANGED <<req, retrieveArg, infoResult, errlog, cleanVars, formatVars>>

\* variant: the failure is caught and an empty result is returned
StoreThrowsSwallowed(e) ==
  /\ pc \in {"findCards", "cardsInfo", "answerCards", "addNote", "nidFind"}
  /\ calls' = Settle(calls, "failed", e, <<>>)
  /\ errlog' = <<StoreError(e)>>
  /\ resp' = IF req.kind = "ReadResource" THEN ContentsResp(req.uri, <<>>)
             ELSE JsonResp(<<>>)
  /\ pc' = "done"
  /\ UNCHANGED <<req, retrieveArg, infoResult, cleanVars, formatVars>>

\* the awaited store call rejects: the await throws, nothing in the tool
\* handler catches it, the catch of ReadResource logs it and throws it again
StoreThrows(e) ==
  /\ pc \in {"findCards", "cardsInfo", "answerCards", "addNote", "nidFind"}
  /\ calls' = Settle(calls, "failed", e, <<>>)
  /\ errlog' = IF req.kind = "ReadResource" THEN <<StoreError(e)>> ELSE errlog
  /\ resp' = ErrorResp(StoreError(e))
  /\ pc' = "done"
  /\ UNCHANGED <<req, retrieveArg, infoResult, cleanVars, formatVars>>

\* the response or the error goes back through the transport; nothing of
\* the request is kept
Respond ==
  /\ pc = "done"
  /\ pc' = "idle"
  /\ req' = NoReq
  /\ calls' = <<>>
  /\ retrieveArg' = <<>>
  /\ infoResult' = <<>>
  /\ resp' = NoResp
  /\ errlog' = <<>>
  /\ UNCHANGED <<cleanVars, formatVars>>

\* what cardsInfo may return for the identifiers it was called with
PendingInfoResults ==
  IF pc = "cardsInfo" THEN InfoResults(calls[Len(calls)].cards) ELSE {}

Next ==
  \/ \E u \in Uris : ReadResource(u)
  \/ \E n \in ToolNames : \E r \in ArgsOf(n) \cup {ToolReq(n)} : CallTool(r)
  \/ \E l \in IdLists : FindCardsReturns(l)
  \/ \E r \in PendingInfoResults : CardsInfoReturns(r)
  \/ \E b \in BoolLists : AnswerCardsReturns(b)
  \/ \E n \in NoteIds : AddNoteReturns(n)
  \/ \E l \in IdLists : NidFindReturns(l)
  \/ \E e \in StoreErrors : StoreThrows(e)
  \/ Respond

Spec == Init /\ [][Next]_vars

(***************************************************************************)
(* cleanWithRegex applied to built inputs, once and once more.             *)
(***************************************************************************)
AppendToken(t) ==
  /\ cphase = "input"
  /\ Len(tokens) < MaxTokens
  /\ tokens' = Append(tokens, t)
  /\ UNCHANGED <<cphase, out1, out2, serverVars, formatVars>>

Clean ==
  /\ cphase = "input"
  /\ out1' = cleanWithRegex(Flatten(tokens))
  /\ cphase' = "once"
  /\ UNCHANGED <<tokens, out2, serverVars, formatVars>>

CleanAgain ==
  /\ cphase = "once"
  /\ out2' = cleanWithRegex(out1)
  /\ cphase' = "twice"
  /\ UNCHANGED <<tokens, out1, serverVars, formatVars>>

NextClean ==
  \/ \E t \in Tokens : AppendToken(t)
  \/ Clean
  \/ CleanAgain

SpecClean == Init /\ [][NextClean]_vars

(***************************************************************************)
(* formatQuery applied to built keywords.                                  *)
(***************************************************************************)
AppendKey(t) ==
  /\ kphase = "input"
  /\ Len(ktokens) < MaxKeyTokens
  /\ ktokens' = Append(ktokens, t)
  /\ UNCHANGED <<kphase, kout, serverVars, cleanVars>>

Format ==
  /\ kphase = "input"
  /\ kout' = formatQuery(FlattenKey(ktokens))
  /\ kphase' = "formatted"
  /\ UNCHANGED <<ktokens, serverVars, cleanVars>>

NextFormat ==
  \/ \E t \in KeyTokens : AppendKey(t)
  \/ Format

SpecFormat == Init /\ [][NextFormat]_vars

(***************************************************************************)
(* Vocabulary of the properties.                                           *)
(***************************************************************************)
\* the error taxonomy: which kind of error a thrown value is
ErrorKind(e) ==
  CASE e.source = "store" -> "UpstreamFailure"
    [] e.message = "Invalid resource URI" -> "InvalidRequest"
    [] e.message = "No arguments provided for tool: " -> "InvalidRequest"
    [] e.message = "Unknown tool" -> "UnknownTool"
    [] e.message = "Failed to update cards with IDs: " -> "PartialFailure"
    [] OTHER -> "none"

DigitVal(c) == CHOOSE d \in 0..9 : Digits[d + 1] = c

IsDigit(c) == \E d \in 0..9 : Digits[d + 1] = c

\* the identifiers a text names: its comma-separated decimal numbers
RECURSIVE ParseFrom(_, _, _, _)
ParseFrom(s, i, cur, started) ==
  IF i > Len(s) THEN (IF started THEN <<cur>> ELSE <<>>)
  ELSE IF IsDigit(s[i]) THEN ParseFrom(s, i + 1, cur * 10 + DigitVal(s[i]), TRUE)
  ELSE IF s[i] = "," THEN <<cur>> \o ParseFrom(s, i + 1, 0, FALSE)
  ELSE ParseFrom(s, i + 1, cur, started)

NamedIds(text) == ParseFrom(text, 1, 0, FALSE)

\* the cardIds of the answers at the positions P, in input order
IdsAt(answers, P) ==
  LET k == Cardinality(P)
      f == CHOOSE g \in [1..k -> P] : \A a, b \in 1..k : a < b => g[a] < g[b]
  IN  [j \in 1..k |-> answers[f[j]].cardId]

AllEntities == {LitNbsp, LitAmp, LitLt, LitGt, LitQuot}

HasEntity(s) == \E e \in AllEntities : Contains(s, e)

HasChar(s, c) == \E j \in 1..Len(s) : s[j] = c

TokenSet(ts) == {ts[j] : j \in 1..Len(ts)}

\* the last "/"-free stretch of a string
LastSegment(path) ==
  LET S == {j \in 1..Len(path) : path[j] = "/"}
  IN  IF S = {} THEN path
      ELSE SubSeq(path, (CHOOSE j \in S : \A k \in S : k <= j) + 1, Len(path))

AllOk == \A i \in 1..Len(calls) : calls[i].st = "ok"

IsGetCards == req.kind = "CallTool" /\ req.hasArgs
                /\ req.name \in {"get_due_cards", "get_new_cards"}

IsUpdateCards == req.kind = "CallTool" /\ req.hasArgs /\ req.name = "update_cards"

(***************************************************************************)
(* C1: update_cards, when answerCards has returned one boolean per answer: *)
(* if a boolean is false the request ends in the "Failed to update" error  *)
(* naming exactly the cardIds at the false positions, in input order;      *)
(* otherwise it ends in the "Updated cards" text naming every submitted    *)
(* cardId in input order.                                                  *)
(***************************************************************************)
C1_UpdateCardsAllOrNothing ==
  (pc = "done" /\ IsUpdateCards /\ calls[1].st = "ok"
     /\ Len(calls[1].ret) = Len(req.answers)) =>
    LET result == calls[1].ret
        bad == {i \in 1..Len(result) : ~result[i]}
    IN  IF bad # {}
        THEN /\ resp.kind = "error"
             /\ ErrorKind(resp.error) = "PartialFailure"
             /\ NamedIds(resp.error.detail) = IdsAt(req.answers, bad)
        ELSE /\ resp.kind = "content"
             /\ resp.type = "text"
             /\ resp.prefix = "Updated cards "
             /\ NamedIds(resp.body) = IdsAt(req.answers, 1..Len(req.answers))

C1_Witness ==
  /\ pc = "done"
  /\ IsUpdateCards
  /\ Len(req.answers) = 3
  /\ calls[1].st = "ok"
  /\ calls[1].ret = <<TRUE, FALSE, FALSE>>
  /\ req.answers[2].cardId # req.answers[3].cardId
  /\ resp.kind = "error"

(***************************************************************************)
(* C2: a CallTool request without arguments, whatever its tool name, ends  *)
(* at once in the InvalidRequest error and no store call is issued for it. *)
(***************************************************************************)
C2_NoArgsInvalidRequest ==
  (req.kind = "CallTool" /\ ~req.hasArgs) =>
    /\ calls = <<>>
    /\ pc = "done"
    /\ resp.kind = "error"
    /\ ErrorKind(resp.error) = "InvalidRequest"
    /\ resp.error.tool = req.name

C2_Witness ==
  /\ req.kind = "CallTool"
  /\ ~req.hasArgs
  /\ req.name = "bogus"
  /\ pc = "done"

(***************************************************************************)
(* C3: get_due_cards / get_new_cards return the first num cards of the     *)
(* due-ascending list of length n: nothing for num <= 0, the whole list    *)
(* for num >= n, exactly num cards otherwise.                              *)
(***************************************************************************)
C3_Truncation ==
  (pc = "done" /\ IsGetCards /\ resp.kind = "content") =>
    LET full == projectAndSort(infoResult)
        n == Len(full)
        want == IF req.num <= 0 THEN 0 ELSE IF req.num >= n THEN n ELSE req.num
    IN  resp.cards = SubSeq(full, 1, want)

(***************************************************************************)
(* C4 as stated: cleaning a cleaned text changes nothing, for every input  *)
(* built from tags, style blocks, div tags, play directives, the five      *)
(* entities and plain text.                                                *)
(***************************************************************************)
C4_IdempotentOriginal == (cphase = "twice") => (out2 = out1)

(***************************************************************************)
(* C4 amended: cleaning a cleaned text changes nothing, for every input    *)
(* built from tags, style blocks, div tags, play directives, the entities  *)
(* &nbsp; &gt; &quot; and plain text (no &amp; and no &lt; entity).        *)
(***************************************************************************)
C4_IdempotentWithoutAmpLt ==
  (cphase = "twice" /\ TokenSet(tokens) \cap {"amp", "lt"} = {}) => (out2 = out1)

C4_Witness ==
  /\ cphase = "twice"
  /\ tokens = <<"div", "gt", "tag">>
  /\ out1 = <<">">>
  /\ out2 = out1

(***************************************************************************)
(* C5 as stated: for an input built only from tags and the five entities,  *)
(* the cleaned text contains no "<" and none of &nbsp; &amp; &lt; &gt;     *)
(* &quot;.                                                                 *)
(***************************************************************************)
C5_NoMarkupOriginal ==
  (cphase # "input" /\ TokenSet(tokens) \subseteq TagTokens \cup EntityTokens) =>
    /\ ~HasChar(out1, "<")
    /\ ~HasEntity(out1)

(***************************************************************************)
(* C5 amended: for an input built only from tags and the five entities,    *)
(* the cleaned text contains none of &nbsp; &amp; &lt; &gt; &quot;, and it *)
(* contains a "<" only when the input contains the entity &lt;.            *)
(***************************************************************************)
C5_NoEntityAndLtOnlyDecoded ==
  (cphase # "input" /\ TokenSet(tokens) \subseteq TagTokens \cup EntityTokens) =>
    /\ ~HasEntity(out1)
    /\ HasChar(out1, "<") => "lt" \in TokenSet(tokens)

C5_Witness ==
  /\ cphase = "once"
  /\ tokens = <<"tag", "amp", "quot">>
  /\ out1 = <<"&", "\"">>

(***************************************************************************)
(* C6: once a store call of a request has failed, it is the last store     *)
(* call of that request, no store operation is attempted twice, and the    *)
(* request ends in an error that is the failure the store raised (and, in  *)
(* ReadResource, that failure is what was logged).                         *)
(***************************************************************************)
C6_StoreFailurePropagates ==
  /\ \A i, j \in 1..Len(calls) : i # j => calls[i].op # calls[j].op
  /\ \A i \in 1..Len(calls) :
       calls[i].st = "failed" =>
         /\ i = Len(calls)
         /\ pc = "done"
         /\ resp.kind = "error"
         /\ resp.error = StoreError(calls[i].err)
         /\ ErrorKind(resp.error) = "UpstreamFailure"
         /\ req.kind = "ReadResource" => errlog = <<resp.error>>

C6_Witness ==
  /\ req.kind = "CallTool"
  /\ req.name = "add_card"
  /\ Len(calls) = 1
  /\ calls[1].op = "addNote"
  /\ calls[1].st = "failed"
  /\ resp.kind = "error"

(***************************************************************************)
(* C7: ReadResource takes the final path segment of the URI as keyword:    *)
(* when that segment is empty the request ends in InvalidRequest without   *)
(* any store call; otherwise the Card Retriever is called with exactly     *)
(* that segment, and the response carries the requested URI and the        *)
(* content type application/json.                                          *)
(***************************************************************************)
C7_ReadResourceKeyword ==
  (req.kind = "ReadResource") =>
    LET seg == LastSegment(pathname(req.uri))
    IN  IF seg = <<>>
        THEN /\ pc = "done"
             /\ calls = <<>>
             /\ resp.kind = "error"
             /\ ErrorKind(resp.error) = "InvalidRequest"
        ELSE /\ retrieveArg = seg
             /\ Len(calls) >= 1
             /\ calls[1].op = "findCards"
             /\ (pc = "done" /\ AllOk) =>
                  /\ resp.kind = "contents"
                  /\ resp.uri = req.uri
                  /\ resp.mimeType = "application/json"

C7_Witness ==
  /\ req.kind = "ReadResource"
  /\ req.uri = LitAnkiSearch \o <<"/", "a", "/", "i", "s", "d", "u", "e">>
  /\ retrieveArg = <<"i", "s", "d", "u", "e">>
  /\ pc = "done"
  /\ resp.kind = "contents"

(***************************************************************************)
(* C8: formatQuery(k) is k with ":" put after its first 4 characters when  *)
(* k starts with "deck", else k with ":" put after its first 2 characters  *)
(* when k starts with "is", else k itself; deckMath gives deck:Math, isdue *)
(* gives is:due and tag:x gives tag:x.                                     *)
(***************************************************************************)
ColonAfter(k, n, out) ==
  /\ Len(out) = Len(k) + 1
  /\ out[n + 1] = ":"
  /\ \A i \in 1..Len(k) : out[IF i <= n THEN i ELSE i + 1] = k[i]

C8_FormatQuery ==
  (kphase = "formatted") =>
    LET k == FlattenKey(ktokens)
    IN  /\ IF Len(k) >= 4 /\ SubSeq(k, 1, 4) = <<"d", "e", "c", "k">>
           THEN ColonAfter(k, 4, kout)
           ELSE IF Len(k) >= 2 /\ SubSeq(k, 1, 2) = <<"i", "s">>
           THEN ColonAfter(k, 2, kout)
           ELSE kout = k
        /\ ktokens = <<"deck", "Math">> =>
             kout = <<"d", "e", "c", "k", ":", "M", "a", "t", "h">>
        /\ ktokens = <<"is", "due">> => kout = <<"i", "s", ":", "d", "u", "e">>
        /\ ktokens = <<"tagx">> => kout = <<"t", "a", "g", ":", "x">>

C8_Witness ==
  /\ kphase = "formatted"
  /\ ktokens = <<"deck", "Math">>
  /\ kout = <<"d", "e", "c", "k", ":", "M", "a", "t", "h">>

(***************************************************************************)
(* C9: what the Card Retriever hands to ReadResource is a rearrangement of *)
(* the records cardsInfo returned, one Card per record, ascending by due,  *)
(* cards of equal due in the order of the store; it is empty when          *)
(* findCards matched no identifier.                                        *)
(***************************************************************************)
C9_SortedStablePermutation ==
  (pc = "done" /\ resp.kind = "contents") =>
    LET n == Len(infoResult)
        res == resp.cards
    IN  /\ Len(res) = n
        /\ \E f \in [1..n -> 1..n] :
             /\ \A i, j \in 1..n : i # j => f[i] # f[j]
             /\ \A i \in 1..n : res[i] = toCard(infoResult[f[i]])
             /\ \A i, j \in 1..n :
                  i < j => \/ res[i].due < res[j].due
                           \/ res[i].due = res[j].due /\ f[i] < f[j]
        /\ calls[1].ret = <<>> => res = <<>>

C9_Witness ==
  /\ pc = "done"
  /\ resp.kind = "contents"
  /\ Len(infoResult) = 3
  /\ infoResult[1].due = 2
  /\ infoResult[2].due = 1
  /\ infoResult[3].due = 1
  /\ infoResult[2].cardId > infoResult[3].cardId
  /\ resp.cards[1].cardId = infoResult[2].cardId

(***************************************************************************)
(* C10: the query get_due_cards passes to findCards is exactly is:due and  *)
(* the one get_new_cards passes is exactly is:new, the queries ReadResource*)
(* issues for anki://search/isdue and anki://search/isnew.                 *)
(***************************************************************************)
C10_ToolQueries ==
  (IsGetCards /\ Len(calls) >= 1) =>
    /\ calls[1].op = "findCards"
    /\ req.name = "get_due_cards" => calls[1].query = <<"i", "s", ":", "d", "u", "e">>
    /\ req.name = "get_new_cards" => calls[1].query = <<"i", "s", ":", "n", "e", "w">>

====
